---- MODULE Spec2Model ----
(***************************************************************************)
(* Hybrid retrieval pipeline of YT-Navigator:                              *)
(*   VectorDatabaseTools.similarity_videos_search  (vector_tool.py)        *)
(*   VectorRetriever.keyword_search                (retriever.py)          *)
(*   VectorDatabaseService.get_vstore/delete_video (base.py)               *)
(*   ChunksReRanker.rerank                         (reranker.py)           *)
(*   get_avg_score / minimise_chunks               (utils.py)              *)
(*                                                                         *)
(* Strings of the program (video ids, texts) are modelled by positive      *)
(* integers; Python's None by the value None below.  Raw scores are        *)
(* integers counting tenths (the 0.5 fallback score is 5); standardized    *)
(* scores are integers counting hundredths (100.00 is 10000).              *)
(***************************************************************************)
EXTENDS Integers, Sequences, FiniteSets, TLC

\* ------------------------------------------------------------------ bounds
NumVideos == 6
MaxDenseHits == 4
MaxKeywordHits == 3
MaxDeletes == 1
MaxDocs == 3
NumTexts == 3
MaxBatchSize == 2
NumWorkers == 3
MaxStored == 4
MaxChunks == 2
NumSearches == 2
MaxRetained == 2
MaxRawScore == 2

\* ------------------------------------------------------- program constants
SIMILARITY_K == 20
TOP_VIDEOS == 5
FALLBACK_LIMIT == 10
MINIMAL_LIMIT == 5
DEFAULT_BATCH_SIZE == 32
MAX_BATCH_SIZE == 64
ROUND_DECIMALS == 2
FEATURE_RANGE_MAX == 100
DEFAULT_SCORE_VALUE == 50
FALLBACK_SCORE == 5

\* standardized scores are kept with ROUND_DECIMALS decimals
Unit == 10 ^ ROUND_DECIMALS
FEATURE_MAX == FEATURE_RANGE_MAX * Unit
DEFAULT_SCORE == DEFAULT_SCORE_VALUE * Unit

None == -1
Inf == 1000000
Channel == 1
Videos == 1 .. NumVideos

Truthy(x) == x # None

Get(m, k) == IF k \in DOMAIN m THEN m[k] ELSE None

Min(a, b) == IF a <= b THEN a ELSE b

RECURSIVE SeqToSet(_)
SeqToSet(s) == IF s = << >> THEN {} ELSE {Head(s)} \cup SeqToSet(Tail(s))

\* every hit list an index holding s can answer with: at most k neighbouring
\* entries of s (the entries nearest to some query), in the order of s
HitLists(s, k) ==
    { SubSeq(s, w[1], w[2]) :
        w \in { x \in (1 .. Len(s) + 1) \X (0 .. Len(s)) :
                  x[2] >= x[1] - 1 /\ x[2] - x[1] + 1 <= k } }

\* --------------------------------------------------------------- ingestion
\* TranscriptScraper._format_transcript: one segment dict per transcript chunk
Segment(vid, txt, st) ==
    [video_id |-> vid, start_time |-> st, timestamp |-> st, text |-> txt, duration |-> 1]

\* the scraped corpus of the channel: one segment per video, a second
\* segment for the last video, and one segment scraped without a video id
ScrapedChunks ==
    [i \in 1 .. NumVideos |-> Segment(i, i, 0)]
        \o << Segment(NumVideos, NumVideos + 1, 1), Segment(None, NumVideos + 2, 0) >>

\* VectorDatabaseService.dict_to_langchain_documents
dict_to_langchain_documents(chunk, channel_id) ==
    [page_content |-> chunk.text,
     metadata |-> ("channel_id" :> channel_id)
                    @@ [k \in {x \in DOMAIN chunk : chunk[x] # None} |-> chunk[k]]]

\* VectorDatabaseService._format_time_for_django: HH:MM:SS
_format_time_for_django(seconds) ==
    << seconds \div 3600, (seconds % 3600) \div 60, (seconds % 3600) % 60 >>

\* add_chunks: the VideoChunk row created for a segment of a known video
VideoChunkRow(chunk, id) ==
    [id |-> id, video |-> chunk.video_id, text |-> chunk.text,
     start |-> _format_time_for_django(chunk.start_time),
     end |-> _format_time_for_django(chunk.start_time + chunk.duration)]

RECURSIVE VideoChunkRows(_, _, _)
VideoChunkRows(chunks, known, i) ==
    IF i > Len(chunks) THEN << >>
    ELSE (IF chunks[i].video_id \in known
            THEN << VideoChunkRow(chunks[i], i) >> ELSE << >>)
         \o VideoChunkRows(chunks, known, i + 1)

\* ------------------------------------------------------------------- state
VARIABLES
    db_instances,        \* VectorDatabaseService._db_instances[Channel]
    embeddings,          \* langchain_pg_embedding rows of the channel
    video_chunks,        \* app_videochunk rows
    videos,              \* app_video primary keys
    pc,                  \* position of the running search
    similarity_results,
    keyword_results,
    combined_results,
    video_map,
    enriched_results,
    reranked_results,
    most_common_video_ids,
    top_chunks,
    response,            \* the QueryVectorStoreResponse returned
    calls,               \* which collaborators the running search has invoked
    deleted,             \* videos removed by delete_video so far
    deleted_at_start,    \* value of deleted when the running search started
    delete_result,       \* return value of the last delete_video
    delete_calls,        \* number of delete_video calls so far
    call,                \* a component operation invoked on its own: its arguments
    returned,            \* and what it returned
    _cross_encoder,      \* ModelManager._cross_encoder
    lru_cache,           \* the lru_cache(maxsize=1) around ModelManager.cross_encoder
    constructed,         \* CrossEncoder constructions since the last clear_cache
    workers,             \* the threads inside ModelManager.get_cross_encoder
    clear_result         \* how the last clear_cache ended

store == << db_instances, embeddings, video_chunks, videos >>
locals == << similarity_results, keyword_results, combined_results, video_map,
             enriched_results, reranked_results, most_common_video_ids, top_chunks >>
history == << deleted, delete_result, delete_calls >>
component == << call, returned >>
manager == << _cross_encoder, lru_cache, constructed, workers, clear_result >>
search == << db_instances, embeddings, video_chunks, videos, pc,
             similarity_results, keyword_results, combined_results, video_map,
             enriched_results, reranked_results, most_common_video_ids,
             top_chunks, response, calls, deleted, deleted_at_start,
             delete_result, delete_calls >>
vars == << db_instances, embeddings, video_chunks, videos, pc,
           similarity_results, keyword_results, combined_results, video_map,
           enriched_results, reranked_results, most_common_video_ids, top_chunks,
           response, calls, deleted, deleted_at_start, delete_result,
           delete_calls, call, returned, _cross_encoder, lru_cache, constructed,
           workers, clear_result >>

EmptyResponse == [chunks |-> << >>, videos |-> << >>]

NoCalls == [vstore |-> "none", dense |-> "none", keyword |-> "none",
            fetch |-> 0, fetch_ids |-> {}, rerank |-> "none"]

EmptyMap == [v \in {} |-> None]

NoCall == [op |-> "none"]
Pending == [status |-> "pending"]
Return(value) == [status |-> "returned", value |-> value]
Raise(error) == [status |-> "raised", error |-> error]
NoWorkers == << >>

\* no component operation is running on its own
ComponentIdle ==
    /\ call = NoCall
    /\ returned = Pending

\* ModelManager._initialize with no thread inside the manager
ManagerIdle ==
    /\ _cross_encoder = None
    /\ lru_cache = None
    /\ constructed = 0
    /\ workers = NoWorkers
    /\ clear_result = Pending

SearchInit ==
    /\ db_instances = "absent"
    /\ embeddings = [i \in 1 .. Len(ScrapedChunks) |->
                        dict_to_langchain_documents(ScrapedChunks[i], Channel)]
    /\ video_chunks = VideoChunkRows(ScrapedChunks, Videos, 1)
    /\ videos = Videos
    /\ pc = "idle"
    /\ similarity_results = << >>
    /\ keyword_results = << >>
    /\ combined_results = << >>
    /\ video_map = EmptyMap
    /\ enriched_results = << >>
    /\ reranked_results = << >>
    /\ most_common_video_ids = << >>
    /\ top_chunks = << >>
    /\ response = EmptyResponse
    /\ calls = NoCalls
    /\ deleted = {}
    /\ deleted_at_start = {}
    /\ delete_result = 0
    /\ delete_calls = 0

Init ==
    /\ SearchInit
    /\ ComponentIdle
    /\ ManagerIdle


\* ------------------------------------------------- video store (app_video)
VideoRow(v) == [id |-> v, title |-> v, thumbnail |-> v, published_at |-> v,
                channel |-> Channel]

_get_video_data_stale(video_ids, table) ==
    [v \in video_ids |-> VideoRow(v)]

\* VectorDatabaseTools._get_video_data: one batched lookup, id -> row
_get_video_data(video_ids, table) ==
    [v \in video_ids \cap table |-> VideoRow(v)]

HitVideoIds_withNone(hits) ==
    { Get(hits[i].metadata, "video_id") : i \in 1 .. Len(hits) }

\* similarity_videos_search, line 185: distinct truthy video ids of the hits
HitVideoIds(hits) ==
    { Get(hits[i].metadata, "video_id") : i \in 1 .. Len(hits) } \ {None}

RECURSIVE Enrich_keepsUnresolved(_, _)
Enrich_keepsUnresolved(hits, vmap) ==
    IF hits = << >> THEN << >>
    ELSE LET r == Head(hits)
             video_id == Get(r.metadata, "video_id")
         IN (IF Truthy(video_id)
               THEN << [page_content |-> r.page_content,
                        metadata |-> IF video_id \in DOMAIN vmap
                                       THEN ("video" :> vmap[video_id]) @@ r.metadata
                                       ELSE r.metadata] >>
               ELSE << >>)
            \o Enrich_keepsUnresolved(Tail(hits), vmap)

\* similarity_videos_search, lines 197-214: attach the video row, drop the
\* hits whose video id does not resolve
RECURSIVE Enrich(_, _)
Enrich(hits, vmap) ==
    IF hits = << >> THEN << >>
    ELSE LET r == Head(hits)
             video_id == Get(r.metadata, "video_id")
         IN (IF Truthy(video_id) /\ video_id \in DOMAIN vmap
               THEN << [page_content |-> r.page_content,
                        metadata |-> ("video" :> vmap[video_id]) @@ r.metadata] >>
               ELSE << >>)
            \o Enrich(Tail(hits), vmap)

\* the elements of xs at the positions in keep that are at most n, in order
RECURSIVE Subsequence(_, _, _)
Subsequence(xs, keep, n) ==
    IF n = 0 THEN << >>
    ELSE Subsequence(xs, keep, n - 1) \o (IF n \in keep THEN << xs[n] >> ELSE << >>)

\* similarity_videos_search, lines 223-226: keep the first document of
\* every page_content
RECURSIVE DedupFrom(_, _)
DedupFrom(docs, seen) ==
    IF docs = << >> THEN << >>
    ELSE IF Head(docs).page_content \in seen
           THEN DedupFrom(Tail(docs), seen)
           ELSE << Head(docs) >>
                  \o DedupFrom(Tail(docs), seen \cup {Head(docs).page_content})

Dedup_byDocument(docs) ==
    Subsequence(docs, { i \in 1 .. Len(docs) :
                          \A j \in 1 .. i - 1 : docs[j] # docs[i] }, Len(docs))

Dedup(docs) == DedupFrom(docs, {})

\* -------------------------------------------------------------- reranker
\* list.sort(key=score, reverse=True): stable, non-increasing scores
RECURSIVE InsertByScore(_, _)
InsertByScore(sorted, x) ==
    IF sorted = << >> THEN << x >>
    ELSE IF Head(sorted).score >= x.score
           THEN << Head(sorted) >> \o InsertByScore(Tail(sorted), x)
           ELSE << x >> \o sorted

SortByScore_asCompleted(s) == s

RECURSIVE SortByScore(_)
SortByScore(s) ==
    IF s = << >> THEN << >>
    ELSE InsertByScore(SortByScore(SubSeq(s, 1, Len(s) - 1)), s[Len(s)])

\* ChunksReRanker.chunk_docs: range(0, len(docs), size) is empty for a
\* negative step
chunk_docs(docs, size) ==
    IF size < 0 THEN << >>
    ELSE [b \in 1 .. ((Len(docs) + size - 1) \div size) |->
            SubSeq(docs, (b - 1) * size + 1, Min(b * size, Len(docs)))]

\* ChunksReRanker.__init__: batch_size or the default, capped
ChunksReRanker_init(batch_size) ==
    LET chosen == IF batch_size.given /\ batch_size.value # 0
                    THEN batch_size.value
                    ELSE DEFAULT_BATCH_SIZE
    IN IF chosen > MAX_BATCH_SIZE THEN MAX_BATCH_SIZE ELSE chosen

\* ChunksReRanker.process_chunk: the model's score per document, or score 0
\* for every document of the batch when scoring raises
process_chunk_dropsFailed(chunk, model, fails) ==
    IF fails THEN << >>
    ELSE [i \in 1 .. Len(chunk) |->
            ("text" :> chunk[i].page_content)
              @@ chunk[i].metadata
              @@ ("score" :> model[chunk[i].page_content])]

process_chunk(chunk, model, fails) ==
    [i \in 1 .. Len(chunk) |->
        ("text" :> chunk[i].page_content)
          @@ chunk[i].metadata
          @@ ("score" :> (IF fails THEN 0 ELSE model[chunk[i].page_content]))]

RECURSIVE Gather(_, _, _, _)
Gather(batches, order, model, failed) ==
    IF order = << >> THEN << >>
    ELSE process_chunk(batches[Head(order)], model, Head(order) \in failed)
           \o Gather(batches, Tail(order), model, failed)

\* ChunksReRanker._rerank: batches complete in the order given
_rerank(docs, size, order, model, failed) ==
    IF docs = << >> THEN << >>
    ELSE SortByScore(Gather(chunk_docs(docs, size), order, model, failed))

\* the orders in which n batches can complete
Orders(n) ==
    { o \in [1 .. n -> 1 .. n] : \A i, j \in 1 .. n : i # j => o[i] # o[j] }

\* what the cross-encoder may answer: a raw score (in tenths) per text
Texts == 1 .. Len(ScrapedChunks)
ScoreModels == { [t \in Texts |-> a * t - 3] : a \in -1 .. 1 }

\* similarity_videos_search, lines 236-244 and 247-255: the unscored fallback
Fallback(docs) ==
    [i \in 1 .. Min(FALLBACK_LIMIT, Len(docs)) |->
        docs[i].metadata
          @@ [content |-> docs[i].page_content,
              video_id |-> Get(docs[i].metadata, "video_id"),
              score |-> FALLBACK_SCORE]]

\* ------------------------------------------------------------ aggregation
\* similarity_videos_search, line 263
IsValid(r) == Truthy(Get(r, "video_id")) \/ Truthy(Get(r, "videoId"))

\* similarity_videos_search, lines 270-272
NormalizeKey(r) ==
    IF "videoId" \in DOMAIN r /\ "video_id" \notin DOMAIN r
      THEN ("video_id" :> r.videoId) @@ r
      ELSE r

ValidResults(reranked) ==
    LET valid == SelectSeq(reranked, IsValid)
    IN [i \in 1 .. Len(valid) |-> NormalizeKey(valid[i])]

\* Counter(...): the keys in first-encounter order
RECURSIVE FirstSeen(_, _)
FirstSeen(results, seen) ==
    IF results = << >> THEN << >>
    ELSE IF Head(results).video_id \in seen
           THEN FirstSeen(Tail(results), seen)
           ELSE << Head(results).video_id >>
                  \o FirstSeen(Tail(results), seen \cup {Head(results).video_id})

Count(results, vid) ==
    Cardinality({ i \in 1 .. Len(results) : results[i].video_id = vid })

RECURSIVE InsertByCount_lastSeenFirst(_, _, _)
InsertByCount_lastSeenFirst(sorted, vid, results) ==
    IF sorted = << >> THEN << vid >>
    ELSE IF Count(results, Head(sorted)) > Count(results, vid)
           THEN << Head(sorted) >>
                  \o InsertByCount_lastSeenFirst(Tail(sorted), vid, results)
           ELSE << vid >> \o sorted

RECURSIVE InsertByCount(_, _, _)
InsertByCount(sorted, vid, results) ==
    IF sorted = << >> THEN << vid >>
    ELSE IF Count(results, Head(sorted)) >= Count(results, vid)
           THEN << Head(sorted) >> \o InsertByCount(Tail(sorted), vid, results)
           ELSE << vid >> \o sorted

RECURSIVE SortByCount(_, _)
SortByCount(ids, results) ==
    IF ids = << >> THEN << >>
    ELSE InsertByCount(SortByCount(SubSeq(ids, 1, Len(ids) - 1), results),
                       ids[Len(ids)], results)

most_common_uncapped(results, n) ==
    SortByCount(FirstSeen(results, {}), results)

\* Counter.most_common(n): highest counts first, ties in first-seen order
most_common(results, n) ==
    LET ranked == SortByCount(FirstSeen(results, {}), results)
    IN SubSeq(ranked, 1, Min(n, Len(ranked)))

TopChunks_unfiltered(valid, top_ids) == valid

\* similarity_videos_search, line 278
TopChunks(valid, top_ids) ==
    SelectSeq(valid, LAMBDA r : r.video_id \in SeqToSet(top_ids))

\* utils.minimise_chunks
HasChunkKeys(r) == {"text", "start", "end", "video_id", "score"} \subseteq DOMAIN r

minimise_chunks(chunks) ==
    LET kept == SelectSeq(chunks, HasChunkKeys)
    IN [i \in 1 .. Len(kept) |->
          [text |-> kept[i].text, start |-> kept[i].start, end |-> kept[i].end,
           videoId |-> kept[i].video_id, score |-> kept[i].score]]

\* MinMaxScaler(feature_range=(0, 100)) followed by np.round(_, 2), in
\* hundredths; a zero data range is scaled with range 1
SeqMin(s) == CHOOSE x \in SeqToSet(s) : \A y \in SeqToSet(s) : x <= y
SeqMax(s) == CHOOSE x \in SeqToSet(s) : \A y \in SeqToSet(s) : x >= y

RoundDiv(n, d) == (2 * n + d) \div (2 * d)

Scale_noShift(x, lo, hi) ==
    IF hi = lo THEN 0 ELSE RoundDiv(x * FEATURE_MAX, hi - lo)

Scale(x, lo, hi) ==
    IF hi = lo THEN 0 ELSE RoundDiv((x - lo) * FEATURE_MAX, hi - lo)

\* 1.0 in the unit of the raw scores (FALLBACK_SCORE is 0.5)
One == 2 * FALLBACK_SCORE

\* MinMaxScaler: before the first fit it has no fitted attribute, a fit
\* replaces the attributes by the minimum and the maximum of its data
Unfitted == [fitted |-> FALSE]

fit(scores) ==
    [fitted |-> TRUE, data_min |-> SeqMin(scores), data_max |-> SeqMax(scores)]

\* MinMaxScaler.transform followed by np.round(_, 2): the data is scaled with
\* the attributes the scaler holds; a zero data range counts as 1.0
transform(scaler, x) ==
    LET data_range == IF scaler.data_max = scaler.data_min
                        THEN One ELSE scaler.data_max - scaler.data_min
    IN RoundDiv((x - scaler.data_min) * FEATURE_MAX, data_range)

\* VectorDatabaseTools._standardize_scores
_standardize_scores(chunks) ==
    IF chunks = << >> THEN chunks
    ELSE IF \E i \in 1 .. Len(chunks) : chunks[i].score = Inf
      THEN [i \in 1 .. Len(chunks) |-> [chunks[i] EXCEPT !.score = DEFAULT_SCORE]]
    ELSE LET scores == [i \in 1 .. Len(chunks) |-> chunks[i].score]
             lo == SeqMin(scores)
             hi == SeqMax(scores)
         IN [i \in 1 .. Len(chunks) |->
               [chunks[i] EXCEPT !.score = Scale(chunks[i].score, lo, hi)]]

\* utils.get_avg_score: sum / count as a fraction, 0.0 without member chunks
RECURSIVE SumScores(_)
SumScores(chunks) ==
    IF chunks = << >> THEN 0 ELSE Head(chunks).score + SumScores(Tail(chunks))

get_avg_score_allChunks(chunks, video_id) ==
    IF chunks = << >> THEN [num |-> 0, den |-> 1]
    ELSE [num |-> SumScores(chunks), den |-> Len(chunks)]

get_avg_score(chunks, video_id) ==
    LET relevant == SelectSeq(chunks, LAMBDA r : r.videoId = video_id)
    IN IF relevant = << >> THEN [num |-> 0, den |-> 1]
       ELSE [num |-> SumScores(relevant), den |-> Len(relevant)]

AvgGE(a, b) == a.num * b.den >= b.num * a.den

\* similarity_videos_search, lines 287-300
RECURSIVE VideoSchemas(_, _, _)
VideoSchemas(ids, vmap, chunks) ==
    IF ids = << >> THEN << >>
    ELSE (IF Head(ids) \in DOMAIN vmap
            THEN << [videoId |-> Head(ids),
                     title |-> vmap[Head(ids)].title,
                     thumbnail |-> vmap[Head(ids)].thumbnail,
                     published_at |-> vmap[Head(ids)].published_at,
                     avg_score |-> get_avg_score(chunks, Head(ids))] >>
            ELSE << >>)
         \o VideoSchemas(Tail(ids), vmap, chunks)

\* similarity_videos_search, lines 302-318
MinimalSchemas(chunks) ==
    LET firsts == SubSeq(chunks, 1, Min(MINIMAL_LIMIT, Len(chunks)))
        named == SelectSeq(firsts, LAMBDA c : Truthy(c.videoId))
    IN [i \in 1 .. Len(named) |->
          [videoId |-> named[i].videoId, title |-> None, thumbnail |-> None,
           published_at |-> None,
           avg_score |-> [num |-> named[i].score, den |-> 1]]]

\* unique_videos.sort(key=avg_score, reverse=True)
RECURSIVE InsertByAvg(_, _)
InsertByAvg(sorted, x) ==
    IF sorted = << >> THEN << x >>
    ELSE IF AvgGE(Head(sorted).avg_score, x.avg_score)
           THEN << Head(sorted) >> \o InsertByAvg(Tail(sorted), x)
           ELSE << x >> \o sorted

SortByAvg_unsorted(s) == s

RECURSIVE SortByAvg(_)
SortByAvg(s) ==
    IF s = << >> THEN << >>
    ELSE InsertByAvg(SortByAvg(SubSeq(s, 1, Len(s) - 1)), s[Len(s)])

\* similarity_videos_search, lines 281-324
BuildResponse(top, top_ids, vmap) ==
    LET standardized_chunks == _standardize_scores(minimise_chunks(top))
        schemas == VideoSchemas(top_ids, vmap, standardized_chunks)
        unique_videos == IF schemas = << >> /\ standardized_chunks # << >>
                           THEN MinimalSchemas(standardized_chunks)
                           ELSE schemas
    IN [chunks |-> standardized_chunks, videos |-> SortByAvg(unique_videos)]


\* ---------------------------------------------------------------- actions
get_vstore_retriesFailed(cache, created) ==
    IF cache \in {"absent", "None"} THEN created ELSE cache

\* VectorDatabaseService.get_vstore: the cached handle, created on first use
get_vstore(cache, created) == IF cache = "absent" THEN created ELSE cache

\* similarity_videos_search, lines 144-153: obtain the handle; without one
\* the search returns the empty response at once
Start ==
    /\ pc \in {"idle", "done", "raised"}
    /\ \E created \in {"store", "None"} :
         LET vstore == get_vstore(db_instances, created)
         IN /\ db_instances' = vstore
            /\ calls' = [NoCalls EXCEPT !.vstore = vstore]
            /\ pc' = IF vstore = "None" THEN "done" ELSE "dense"
    /\ similarity_results' = << >>
    /\ keyword_results' = << >>
    /\ combined_results' = << >>
    /\ video_map' = EmptyMap
    /\ enriched_results' = << >>
    /\ reranked_results' = << >>
    /\ most_common_video_ids' = << >>
    /\ top_chunks' = << >>
    /\ response' = EmptyResponse
    /\ deleted_at_start' = deleted
    /\ UNCHANGED << embeddings, video_chunks, videos, history >>
    /\ UNCHANGED << component, manager >>

\* PGVector.asimilarity_search(query, k=20, filter channel_id)
ChannelEmbeddings(rows, channel_id) ==
    SelectSeq(rows, LAMBDA d : Get(d.metadata, "channel_id") = channel_id)

\* similarity_videos_search, lines 163-168: the except clause swallows the
\* error of the similarity search and the keyword search comes next
AfterSimilarity_propagates(status) ==
    IF status = "raised" THEN "raised" ELSE "keyword"

AfterSimilarity(status) == "keyword"

\* similarity_videos_search, lines 155-165
SimilaritySearch ==
    /\ pc = "dense"
    /\ \/ \E hits \in HitLists(ChannelEmbeddings(embeddings, Channel),
                               Min(SIMILARITY_K, MaxDenseHits)) :
            /\ similarity_results' = hits
            /\ calls' = [calls EXCEPT !.dense = "ok"]
       \/ /\ similarity_results' = << >>
          /\ calls' = [calls EXCEPT !.dense = "raised"]
    /\ pc' = AfterSimilarity(calls'.dense)
    /\ UNCHANGED << store, keyword_results, combined_results, video_map,
                    enriched_results, reranked_results, most_common_video_ids,
                    top_chunks, response, history, deleted_at_start >>
    /\ UNCHANGED << component, manager >>

\* VectorRetriever.get_bm25_retriever.prepare_documents
prepare_documents(rows, channel_id) ==
    [i \in 1 .. Len(rows) |->
        [page_content |-> rows[i].text,
         metadata |-> [id |-> rows[i].id, video_id |-> rows[i].video,
                       start |-> rows[i].start, end |-> rows[i].end,
                       text |-> rows[i].text, channel_id |-> channel_id]]]

\* similarity_videos_search, line 178: dense hits first, then keyword hits
CombinedResults_keywordFirst(dense, keyword) == keyword \o dense

CombinedResults_dropsDense(dense, keyword) ==
    IF keyword = << >> THEN << >> ELSE dense \o keyword

CombinedResults(dense, keyword) == dense \o keyword

\* similarity_videos_search, lines 180-189: without a hit, or without a hit
\* that carries a video id, the search returns the empty response
AfterSearches(combined) ==
    IF combined = << >> \/ HitVideoIds(combined) = {} THEN "done" ELSE "fetch"

\* VectorRetriever.keyword_search under similarity_videos_search,
\* lines 167-175, then lines 177-189
KeywordSearch ==
    /\ pc = "keyword"
    /\ \/ \E hits \in HitLists(prepare_documents(video_chunks, Channel),
                               MaxKeywordHits) :
            /\ keyword_results' = hits
            /\ calls' = [calls EXCEPT !.keyword = "ok"]
       \/ /\ keyword_results' = << >>
          /\ calls' = [calls EXCEPT !.keyword = "no_retriever"]
       \/ /\ keyword_results' = << >>
          /\ calls' = [calls EXCEPT !.keyword = "raised"]
    /\ combined_results' = CombinedResults(similarity_results, keyword_results')
    /\ pc' = AfterSearches(combined_results')
    /\ response' = EmptyResponse
    /\ UNCHANGED << store, similarity_results, video_map, enriched_results,
                    reranked_results, most_common_video_ids, top_chunks,
                    history, deleted_at_start >>
    /\ UNCHANGED << component, manager >>

\* similarity_videos_search, line 192: the metadata lookup raises and the
\* exception leaves the search
FetchRaises ==
    /\ pc = "fetch"
    /\ pc' = "raised"
    /\ calls' = [calls EXCEPT !.fetch = @ + 1,
                              !.fetch_ids = HitVideoIds(combined_results)]
    /\ UNCHANGED << store, locals, response, history, deleted_at_start >>
    /\ UNCHANGED << component, manager >>

\* similarity_videos_search, lines 229-255: the reranker's answer or the
\* unscored fallback
Reranked(docs, outcome) ==
    IF outcome.kind = "raised" THEN Fallback(docs)
    ELSE LET ranked == _rerank(docs, DEFAULT_BATCH_SIZE, outcome.order,
                               outcome.model, outcome.failed)
         IN IF ranked = << >> THEN Fallback(docs) ELSE ranked

RerankOutcomes(docs) ==
    LET n == Len(chunk_docs(docs, DEFAULT_BATCH_SIZE))
    IN { [kind |-> "ok", order |-> o, model |-> m, failed |-> f] :
            o \in Orders(n), m \in ScoreModels, f \in SUBSET (1 .. n) }
       \cup { [kind |-> "raised"] }

\* similarity_videos_search, lines 192-324: metadata lookup, enrichment,
\* deduplication, reranking, selection, standardization and the response
FetchAndRank ==
    /\ pc = "fetch"
    /\ LET vmap == _get_video_data(HitVideoIds(combined_results), videos)
           enriched == Dedup(Enrich(combined_results, vmap))
       IN /\ video_map' = vmap
          /\ enriched_results' = enriched
          /\ IF enriched = << >>
               THEN /\ reranked_results' = << >>
                    /\ most_common_video_ids' = << >>
                    /\ top_chunks' = << >>
                    /\ response' = EmptyResponse
                    /\ calls' = [calls EXCEPT
                                   !.fetch = @ + 1,
                                   !.fetch_ids = HitVideoIds(combined_results)]
               ELSE \E outcome \in RerankOutcomes(enriched) :
                      LET reranked == Reranked(enriched, outcome)
                          valid == ValidResults(reranked)
                          top_ids == most_common(valid, TOP_VIDEOS)
                          top == TopChunks(valid, top_ids)
                      IN /\ reranked_results' = reranked
                         /\ calls' = [calls EXCEPT
                                        !.fetch = @ + 1,
                                        !.fetch_ids = HitVideoIds(combined_results),
                                        !.rerank = outcome.kind]
                         /\ IF reranked = << >> \/ valid = << >>
                              THEN /\ most_common_video_ids' = << >>
                                   /\ top_chunks' = << >>
                                   /\ response' = EmptyResponse
                              ELSE /\ most_common_video_ids' = top_ids
                                   /\ top_chunks' = top
                                   /\ response' = BuildResponse(top, top_ids, vmap)
    /\ pc' = "done"
    /\ UNCHANGED << store, similarity_results, keyword_results,
                    combined_results, history, deleted_at_start >>
    /\ UNCHANGED << component, manager >>

\* VectorDatabaseService.delete_video, line 187: the embedding rows whose
\* metadata contains {"videoId": video_id} are deleted
DeleteEmbeddings(rows, video_id) ==
    SelectSeq(rows, LAMBDA d : Get(d.metadata, "videoId") # video_id)

\* Video.objects.filter(id=video_id).delete(): the row and, by cascade,
\* its VideoChunk rows
DeleteChunks(rows, video_id) == SelectSeq(rows, LAMBDA c : c.video # video_id)

DeletedCount(rows, table, video_id) ==
    IF video_id \in table
      THEN 1 + Len(rows) - Len(DeleteChunks(rows, video_id))
      ELSE 0

\* VectorDatabaseService.delete_video, lines 184-199
DeleteVideo ==
    /\ delete_calls < MaxDeletes
    /\ delete_calls' = delete_calls + 1
    /\ \E v \in videos :
         /\ embeddings' = DeleteEmbeddings(embeddings, v)
         /\ video_chunks' = DeleteChunks(video_chunks, v)
         /\ videos' = videos \ {v}
         /\ deleted' = deleted \cup {v}
         /\ delete_result' = DeletedCount(video_chunks, videos, v)
    /\ UNCHANGED << db_instances, pc, locals, response, calls, deleted_at_start >>
    /\ UNCHANGED << component, manager >>

\* VectorDatabaseService.delete_video, lines 200-202: a failing statement
\* leaves the stores as they were and 0 is returned
DeleteVideoFails ==
    /\ delete_calls < MaxDeletes
    /\ delete_calls' = delete_calls + 1
    /\ delete_result' = 0
    /\ UNCHANGED << store, pc, locals, response, calls, deleted, deleted_at_start >>
    /\ UNCHANGED << component, manager >>

Next ==
    \/ Start
    \/ SimilaritySearch
    \/ KeywordSearch
    \/ FetchRaises
    \/ FetchAndRank
    \/ DeleteVideo
    \/ DeleteVideoFails

Spec == Init /\ [][Next]_vars

\* ------------------------------------------- component operations on their own
\* candidate documents as the search hands them on: a text found by the
\* similarity search (segment metadata) or by the keyword search (chunk row
\* metadata), with the video row attached
CandidateMetadata(found_by, t, v) ==
    IF found_by = "similarity"
      THEN [video_id |-> v, start_time |-> t, timestamp |-> t, text |-> t,
            duration |-> 1, channel_id |-> Channel]
      ELSE [id |-> t, video_id |-> v, start |-> t, end |-> t + 1, text |-> t,
            channel_id |-> Channel]

CandidateDocs ==
    { [page_content |-> t,
       metadata |-> ("video" :> VideoRow(v)) @@ CandidateMetadata(found_by, t, v)] :
         t \in 1 .. NumTexts, v \in 1 .. 2, found_by \in {"similarity", "keyword"} }

\* the candidate lists of at most MaxDocs documents
DocLists ==
    UNION { [1 .. n -> CandidateDocs] : n \in 0 .. MaxDocs }

\* similarity_videos_search, lines 221-226, applied to a candidate list
DedupInit ==
    /\ SearchInit
    /\ ManagerIdle
    /\ call \in { [op |-> "dedup", docs |-> d] : d \in DocLists }
    /\ returned = Pending

DedupCall ==
    /\ call.op = "dedup"
    /\ returned = Pending
    /\ returned' = Return(Dedup(call.docs))
    /\ UNCHANGED << call, search, manager >>

SpecDedup == DedupInit /\ [][DedupCall]_vars

\* the candidate lists the search hands to the reranker: no text twice
RerankInputs ==
    { d \in DocLists :
         /\ \A i, j \in 1 .. Len(d) : i # j => d[i].page_content # d[j].page_content
         /\ \A i \in 1 .. Len(d) : d[i].metadata.video_id = 1 }

\* ChunksReRanker(batch_size)._rerank(query, docs)
RerankInit ==
    /\ SearchInit
    /\ ManagerIdle
    /\ call \in { [op |-> "rerank", docs |-> d, batch_size |-> b] :
                     d \in RerankInputs, b \in 1 .. MaxBatchSize }
    /\ returned = Pending

\* the batches are scored by pool threads: each batch gets the model's
\* scores or fails, and the batches complete in any order
RerankCall ==
    /\ call.op = "rerank"
    /\ returned = Pending
    /\ \E model \in ScoreModels :
       \E failed \in SUBSET (1 .. Len(chunk_docs(call.docs, call.batch_size))) :
       \E order \in Orders(Len(chunk_docs(call.docs, call.batch_size))) :
          returned' = [status |-> "returned",
                       value |-> _rerank(call.docs, call.batch_size, order, model, failed),
                       model |-> model,
                       failed |-> failed]
    /\ UNCHANGED << call, search, manager >>

SpecRerank == RerankInit /\ [][RerankCall]_vars

\* the batch_size arguments of the constructor: omitted (None), zero,
\* negative, small, at the cap and above it
BatchSizeArgs ==
    { [given |-> FALSE] }
       \cup { [given |-> TRUE, value |-> n] :
                 n \in (-MaxBatchSize .. MaxBatchSize)
                          \cup {MAX_BATCH_SIZE, MAX_BATCH_SIZE + 1} }

BatchInit ==
    /\ SearchInit
    /\ ManagerIdle
    /\ call \in { [op |-> "chunk_docs", docs |-> d, batch_size |-> b] :
                     d \in RerankInputs, b \in BatchSizeArgs }
    /\ returned = Pending

\* ChunksReRanker(batch_size) and the split of _rerank, line 73
BatchCall ==
    /\ call.op = "chunk_docs"
    /\ returned = Pending
    /\ LET reranker == [batch_size |-> ChunksReRanker_init(call.batch_size)]
       IN returned' = Return([batch_size |-> reranker.batch_size,
                              doc_chunks |-> chunk_docs(call.docs, reranker.batch_size)])
    /\ UNCHANGED << call, search, manager >>

SpecBatch == BatchInit /\ [][BatchCall]_vars

\* ------------------------------------------------------------ ModelManager
\* the threads that call get_cross_encoder: the pool threads of a rerank call
\* and the threads of concurrent searches
Workers == 1 .. NumWorkers

\* the attributes the module chunks_reranker.config defines
config == {"DEFAULT_MODEL_NAME", "MAX_SEQUENCE_LENGTH", "DEFAULT_BATCH_SIZE",
           "MAX_BATCH_SIZE", "ENABLE_CUDA_OPTIMIZATIONS", "ENABLE_TF32",
           "CUDA_BENCHMARK"}

\* reading an attribute of a module or an object that does not define it
AttributeError == "AttributeError"

IdleWorker == [pc |-> "idle", result |-> Pending, after_clear |-> FALSE]

ManagerInit ==
    /\ SearchInit
    /\ ComponentIdle
    /\ _cross_encoder = None
    /\ lru_cache = None
    /\ constructed = 0
    /\ workers = [w \in Workers |-> IdleWorker]
    /\ clear_result = Pending

\* ModelManager.get_cross_encoder: reads the property, which calls the
\* lru_cache wrapper around the getter
get_cross_encoder(w) ==
    /\ workers[w].pc = "idle"
    /\ workers' = [workers EXCEPT
                      ![w] = [pc |-> "wrapper", result |-> Pending,
                              after_clear |-> clear_result # Pending]]
    /\ UNCHANGED << _cross_encoder, lru_cache, constructed, clear_result >>
    /\ UNCHANGED << search, component >>

\* functools.lru_cache(maxsize=1): a hit returns the cached object, a miss
\* calls the getter outside the cache lock
cache_lookup(w) ==
    /\ workers[w].pc = "wrapper"
    /\ workers' = [workers EXCEPT
                      ![w] = IF lru_cache # None
                               THEN [@ EXCEPT !.pc = "done",
                                              !.result = Return(lru_cache)]
                               ELSE [@ EXCEPT !.pc = "getter"]]
    /\ UNCHANGED << _cross_encoder, lru_cache, constructed, clear_result >>
    /\ UNCHANGED << search, component >>

\* ModelManager.cross_encoder, lines 55-66, and the wrapper storing what the
\* getter returned: with no model held the getter first reads
\* config.RANKER_MODEL_NAME
cross_encoder(w) ==
    /\ workers[w].pc = "getter"
    /\ IF _cross_encoder = None /\ "RANKER_MODEL_NAME" \notin config
         THEN /\ workers' = [workers EXCEPT ![w].pc = "done",
                                            ![w].result = Raise(AttributeError)]
              /\ UNCHANGED << _cross_encoder, lru_cache, constructed >>
         ELSE LET loaded == IF _cross_encoder = None
                              THEN constructed + 1
                              ELSE _cross_encoder
              IN /\ _cross_encoder' = loaded
                 /\ constructed' = IF _cross_encoder = None
                                     THEN constructed + 1
                                     ELSE constructed
                 /\ lru_cache' = loaded
                 /\ workers' = [workers EXCEPT ![w].pc = "done",
                                               ![w].result = Return(loaded)]
    /\ UNCHANGED clear_result
    /\ UNCHANGED << search, component >>

\* the caller takes what get_cross_encoder returned or raised
caller_continues(w) ==
    /\ workers[w].pc = "done"
    /\ workers' = [workers EXCEPT ![w] = IdleWorker]
    /\ UNCHANGED << _cross_encoder, lru_cache, constructed, clear_result >>
    /\ UNCHANGED << search, component >>

\* ModelManager.clear_cache: line 86 drops the model, line 88 reads
\* self.cross_encoder, which calls the wrapped getter as any other read of
\* the property does, and then reads the attribute fget of what it returned
clear_cache ==
    /\ _cross_encoder' =
          IF lru_cache = None /\ "RANKER_MODEL_NAME" \in config
            THEN constructed + 1
            ELSE None
    /\ constructed' =
          IF lru_cache = None /\ "RANKER_MODEL_NAME" \in config
            THEN constructed + 1
            ELSE constructed
    /\ lru_cache' =
          IF lru_cache = None /\ "RANKER_MODEL_NAME" \in config
            THEN constructed + 1
            ELSE lru_cache
    /\ clear_result' = [status |-> "raised", error |-> AttributeError,
                        constructed_before |-> constructed]
    /\ UNCHANGED workers
    /\ UNCHANGED << search, component >>

ManagerNext ==
    \/ \E w \in Workers : get_cross_encoder(w)
    \/ \E w \in Workers : cache_lookup(w)
    \/ \E w \in Workers : cross_encoder(w)
    \/ \E w \in Workers : caller_continues(w)
    \/ clear_cache

SpecManager == ManagerInit /\ [][ManagerNext]_vars

\* a Python dict as the list of its items in insertion order
MetadataKeys == {"video_id", "text", "duration"}

Dicts ==
    { d \in UNION { [1 .. n -> [key : MetadataKeys, value : {None, 1}]] :
                      n \in 0 .. Cardinality(MetadataKeys) } :
         \A i, j \in 1 .. Len(d) : i # j => d[i].key # d[j].key }

Chunks == [page_content : 1 .. NumTexts, metadata : Dicts]

\* json.dumps of a dict without sort_keys: the items in insertion order
json_dumps(items) == items

\* hashlib.sha256(...).hexdigest(): distinct serializations have distinct
\* digests, so the digest is represented by the serialization it hashes
sha256(serialized) == serialized

\* utils.get_chunk_id
get_chunk_id(chunk) ==
    sha256(<< [key |-> "content", value |-> chunk.page_content],
              [key |-> "metadata",
               value |-> json_dumps(SelectSeq(chunk.metadata,
                                              LAMBDA item : item.value # None))] >>)

ChunkIdInit ==
    /\ SearchInit
    /\ ManagerIdle
    /\ call \in { [op |-> "get_chunk_id", chunks |-> << a, b >>] :
                     a \in Chunks, b \in Chunks }
    /\ returned = Pending

\* VectorDatabaseService.add_chunks, line 222: an id per document
ChunkIdCall ==
    /\ call.op = "get_chunk_id"
    /\ returned = Pending
    /\ returned' = Return([i \in 1 .. Len(call.chunks) |-> get_chunk_id(call.chunks[i])])
    /\ UNCHANGED << call, search, manager >>

SpecChunkId == ChunkIdInit /\ [][ChunkIdCall]_vars

\* ------------------------------------------------- ingestion of a scrape
\* the keys of a document's metadata in the order the ingestion inserts them:
\* the segment's keys (_format_transcript), then channel_id
MetadataOrder ==
    << "video_id", "start_time", "timestamp", "text", "duration", "channel_id" >>

RECURSIVE MetadataItems(_, _)
MetadataItems(metadata, i) ==
    IF i > Len(MetadataOrder) THEN << >>
    ELSE (IF MetadataOrder[i] \in DOMAIN metadata
            THEN << [key |-> MetadataOrder[i], value |-> metadata[MetadataOrder[i]]] >>
            ELSE << >>)
         \o MetadataItems(metadata, i + 1)

\* add_chunks, line 222: the fingerprint of a document
DocumentId(doc) ==
    get_chunk_id([page_content |-> doc.page_content,
                  metadata |-> MetadataItems(doc.metadata, 1)])

\* VectorRetriever.get_non_existing_ids: the ids that no row of
\* langchain_pg_embedding has in its id column
get_non_existing_ids(ids, rows) ==
    SelectSeq(ids, LAMBDA input_id :
                      \A r \in 1 .. Len(rows) : rows[r].id # input_id)

\* the id the store gives a row when aadd_documents is called without ids
uuid(n) == << [key |-> "uuid", value |-> n] >>

\* _add_chunks_in_batches: vstore.aadd_documents(batch), no ids passed
aadd_documents(rows, batch) ==
    rows \o [k \in 1 .. Len(batch) |->
               [id |-> uuid(Len(rows) + k),
                page_content |-> batch[k].page_content,
                metadata |-> batch[k].metadata]]

\* add_chunks, lines 264-304: a VideoChunk row per document of a known video
\* whose text no row has yet
NewVideoChunks(documents, rows, known) ==
    LET existing_texts == { rows[r].text : r \in 1 .. Len(rows) }
        filtered_chunks ==
            SelectSeq(documents, LAMBDA c :
                /\ c.page_content \notin existing_texts
                /\ Get(c.metadata, "video_id") \in known)
    IN [k \in 1 .. Len(filtered_chunks) |->
          VideoChunkRow(filtered_chunks[k].metadata, Len(rows) + k)]

IngestInit ==
    /\ db_instances = "absent"
    /\ embeddings = << >>
    /\ video_chunks = << >>
    /\ videos = Videos
    /\ pc = "idle"
    /\ similarity_results = << >>
    /\ keyword_results = << >>
    /\ combined_results = << >>
    /\ video_map = EmptyMap
    /\ enriched_results = << >>
    /\ reranked_results = << >>
    /\ most_common_video_ids = << >>
    /\ top_chunks = << >>
    /\ response = EmptyResponse
    /\ calls = NoCalls
    /\ deleted = {}
    /\ deleted_at_start = {}
    /\ delete_result = 0
    /\ delete_calls = 0
    /\ call = NoCall
    /\ returned = Pending
    /\ _cross_encoder = None
    /\ lru_cache = None
    /\ constructed = 0
    /\ workers = NoWorkers
    /\ clear_result = Pending

IngestUnchanged ==
    UNCHANGED << videos, pc, locals, response, calls, deleted, deleted_at_start,
                 delete_result, delete_calls, manager >>

\* VectorDatabaseService.add_chunks, lines 214-304
add_chunks ==
    /\ Len(embeddings) < MaxStored
    /\ \E chunks \in HitLists(ScrapedChunks, MaxChunks) \ {<< >>},
          created \in {"store", "None"} :
         LET vstore == get_vstore(db_instances, created)
             documents == [i \in 1 .. Len(chunks) |->
                             dict_to_langchain_documents(chunks[i], Channel)]
             chunks_ids == [i \in 1 .. Len(documents) |-> DocumentId(documents[i])]
             non_existing_ids == get_non_existing_ids(chunks_ids, embeddings)
             non_existing_chunks ==
                 SelectSeq(documents, LAMBDA c :
                     \E i \in 1 .. Len(non_existing_ids) :
                        non_existing_ids[i] = DocumentId(c))
         IN /\ db_instances' = vstore
            /\ call' = [op |-> "add_chunks", chunks |-> chunks,
                        stored |-> Len(embeddings)]
            /\ returned' = Return(None)
            /\ IF vstore = "None"
                 THEN UNCHANGED << embeddings, video_chunks >>
                 ELSE /\ embeddings' = IF non_existing_ids # << >>
                                         THEN aadd_documents(embeddings, non_existing_chunks)
                                         ELSE embeddings
                      /\ video_chunks' = video_chunks
                            \o NewVideoChunks(documents, video_chunks, videos)
    /\ IngestUnchanged

\* VectorDatabaseService.add_chunks, lines 317-319: an error of the id query
\* is logged and raised again, nothing is written
add_chunks_raises ==
    /\ db_instances \in {"absent", "store"}
    /\ \E chunks \in HitLists(ScrapedChunks, MaxChunks) \ {<< >>} :
         call' = [op |-> "add_chunks", chunks |-> chunks,
                  stored |-> Len(embeddings)]
    /\ db_instances' = "store"
    /\ returned' = Raise("Exception")
    /\ UNCHANGED << embeddings, video_chunks >>
    /\ IngestUnchanged

IngestNext ==
    \/ add_chunks
    \/ add_chunks_raises

SpecIngest == IngestInit /\ [][IngestNext]_vars

\* ------------------------------------- concurrent score standardization
\* the searches that standardize at the same time, each on its own thread
Searches == 1 .. NumSearches

\* raw scores of retained chunks: multiples of the fallback score
RawScores == { k * FALLBACK_SCORE : k \in 0 .. MaxRawScore }

RetainedScores == UNION { [1 .. n -> RawScores] : n \in 1 .. MaxRetained }

\* the class attribute _scaler is constructed once, when the class is defined;
\* every search enters _standardize_scores(cls, chunks) with its own chunks
ScalerInit ==
    /\ SearchInit
    /\ _cross_encoder = None
    /\ lru_cache = None
    /\ constructed = 0
    /\ clear_result = Pending
    /\ call = [op |-> "_standardize_scores", cls |-> [_scaler |-> Unfitted]]
    /\ returned = Pending
    /\ workers \in [Searches -> { [pc |-> "called", scores |-> s, scaled |-> << >>] :
                                    s \in RetainedScores }]

\* cls._scaler.fit_transform(scores), first half: fit stores the attributes
\* of this search's scores in the scaler all searches share
scaler_fit(w) ==
    /\ workers[w].pc = "called"
    /\ call' = [call EXCEPT !.cls._scaler = fit(workers[w].scores)]
    /\ workers' = [workers EXCEPT ![w].pc = "fitted"]
    /\ UNCHANGED << search, returned, _cross_encoder, lru_cache, constructed,
                    clear_result >>

\* cls._scaler.fit_transform(scores), second half: transform scales this
\* search's scores with the attributes the scaler holds by then
scaler_transform(w) ==
    /\ workers[w].pc = "fitted"
    /\ workers' = [workers EXCEPT
                     ![w].pc = "done",
                     ![w].scaled = [i \in 1 .. Len(workers[w].scores) |->
                                       transform(call.cls._scaler, workers[w].scores[i])]]
    /\ UNCHANGED << search, component, _cross_encoder, lru_cache, constructed,
                    clear_result >>

ScalerNext ==
    \/ \E w \in Searches : scaler_fit(w)
    \/ \E w \in Searches : scaler_transform(w)

SpecScaler == ScalerInit /\ [][ScalerNext]_vars

\* ------------------------------------------- the handle cache and close()
\* VectorDatabaseService.close: the engines of the cached handles are
\* disposed (an error of a dispose is logged), then the cache is cleared
close ==
    /\ db_instances' = "absent"
    /\ call' = [op |-> "close", cleared |-> db_instances]
    /\ returned' = Return(None)
    /\ UNCHANGED << embeddings, video_chunks, videos, pc, locals, response,
                    calls, history, deleted_at_start, manager >>

\* searches of the channel and close() on the service they share
HandleNext ==
    \/ Start
    \/ SimilaritySearch
    \/ KeywordSearch
    \/ FetchRaises
    \/ FetchAndRank
    \/ close

SpecHandle == Init /\ [][HandleNext]_vars


\* ------------------------------------------------------------- properties
Range(s) == { s[i] : i \in 1 .. Len(s) }

ResponseVideoIds == { v.videoId : v \in Range(response.videos) }
ResponseChunkIds == { c.videoId : c \in Range(response.chunks) }

\* every chunk and every video of the response stems from one of the hits
ResponseFrom(hits) ==
    /\ \A c \in Range(response.chunks) :
         \E h \in Range(hits) :
            h.page_content = c.text /\ Get(h.metadata, "video_id") = c.videoId
    /\ ResponseVideoIds \subseteq HitVideoIds(hits)

\* C1: the search never raises into its caller; a failing sub-stage without
\* a local handler (the metadata lookup) still ends in the empty response.
C1_SearchNeverRaises == pc # "raised"

C3_KeywordFailureKeepsDense ==
    calls.keyword \in {"no_retriever", "raised"} =>
        /\ keyword_results = << >>
        /\ combined_results = similarity_results
        /\ pc = "raised" => calls.fetch > 0
        /\ (pc = "done" /\ calls.fetch > 0) =>
              /\ \A h \in Range(similarity_results) :
                    Get(h.metadata, "video_id") \in DOMAIN video_map =>
                       \E e \in Range(enriched_results) :
                          e.page_content = h.page_content
              /\ ResponseFrom(similarity_results)

C3_Witness ==
    /\ pc = "done"
    /\ calls.keyword \in {"no_retriever", "raised"}
    /\ Len(similarity_results) > 1
    /\ Len(enriched_results) = Len(similarity_results)
    /\ response.videos # << >>

\* C4: a channel whose vector store handle cannot be obtained loses only the
\* dense path: the keyword search is still run for it.
C4_NoHandleStillRunsKeyword ==
    (pc = "done" /\ calls.vstore = "None") => calls.keyword # "none"

\* C5: the response never lists more than 5 videos.
C5_VideoCap == Len(response.videos) <= 5

C5_Witness ==
    /\ pc = "done"
    /\ Cardinality(HitVideoIds(enriched_results)) > 5
    /\ Len(response.videos) = 5


\* C6: every chunk of the response belongs to a video listed in the
\* response, and to one of the selected top videos.
C6_ChunksBelongToVideos ==
    /\ ResponseChunkIds \subseteq ResponseVideoIds
    /\ ResponseChunkIds \subseteq Range(most_common_video_ids)

\* a candidate that has the shape of an output chunk is left out because
\* its video is not among the selected ones
C6_Witness ==
    /\ pc = "done"
    /\ response.chunks # << >>
    /\ \E r \in Range(reranked_results) :
          /\ HasChunkKeys(r)
          /\ r.video_id \notin Range(most_common_video_ids)
          /\ r.video_id \notin ResponseChunkIds

\* C7: every chunk of the response has a score between 0 and 100
\* (hundredths: 0 .. 10000).
C7_ScoreBounds ==
    \A c \in Range(response.chunks) : 0 <= c.score /\ c.score <= FEATURE_MAX

\* negative raw scores, rescaled to the lower end, the upper end and to a
\* value strictly between
C7_Witness ==
    /\ pc = "done"
    /\ \A r \in Range(top_chunks) : r.score < 0
    /\ \E c \in Range(response.chunks) : c.score = 0
    /\ \E c \in Range(response.chunks) : c.score = FEATURE_MAX
    /\ \E c \in Range(response.chunks) : 0 < c.score /\ c.score < FEATURE_MAX

\* C8: the videos of the response are ordered by avg_score, highest first.
C8_VideosSortedByAvg ==
    \A i \in 1 .. Len(response.videos) - 1 :
        AvgGE(response.videos[i].avg_score, response.videos[i + 1].avg_score)

\* the most frequent video does not have the best average: sorting moved it
C8_Witness ==
    /\ pc = "done"
    /\ Len(response.videos) > 1
    /\ response.videos[1].videoId # most_common_video_ids[1]
    /\ ~ AvgGE(response.videos[Len(response.videos)].avg_score,
               response.videos[1].avg_score)

\* C9: when no combined hit resolves to a video of the video store, the
\* response is empty.
C9_NothingResolvesEmptyResponse ==
    (pc = "done" /\ HitVideoIds(combined_results) \cap DOMAIN video_map = {})
        => response = EmptyResponse

\* hits that carry video ids, none of which the video store knows
C9_Witness ==
    /\ pc = "done"
    /\ calls.fetch = 1
    /\ HitVideoIds(combined_results) # {}
    /\ DOMAIN video_map = {}
    /\ response = EmptyResponse

\* C10: the response names only videos the metadata lookup of this search
\* resolved; a video deleted before the search started is never returned.
C10_OnlyResolvedVideos ==
    pc = "done" =>
        /\ ResponseChunkIds \cup ResponseVideoIds \subseteq DOMAIN video_map
        /\ (ResponseChunkIds \cup ResponseVideoIds) \cap deleted_at_start = {}

\* the deleted video is still hit through its embedding, and left out
C10_Witness ==
    /\ pc = "done"
    /\ \E v \in deleted_at_start :
          /\ v \in HitVideoIds(similarity_results)
          /\ v \notin ResponseVideoIds
    /\ response.videos # << >>


\* the hits of a list whose video id the metadata lookup resolved
Resolved(hits) ==
    SelectSeq(hits, LAMBDA h : Get(h.metadata, "video_id") \in DOMAIN video_map)

\* the texts found by both searches, each time by a hit that resolves
SharedTexts ==
    { h.page_content : h \in Range(Resolved(similarity_results)) }
        \cap { h.page_content : h \in Range(Resolved(keyword_results)) }

\* C11: for a text found by a dense hit and by a keyword hit that both
\* resolve, the one candidate given to the reranker is the first dense hit
\* of that text, with the dense hit's metadata plus the video row.
C11_DenseHitWinsSharedText ==
    (pc = "done" /\ calls.fetch > 0) =>
        \A t \in SharedTexts :
            LET first == CHOOSE i \in 1 .. Len(similarity_results) :
                            /\ similarity_results[i].page_content = t
                            /\ Get(similarity_results[i].metadata, "video_id")
                                  \in DOMAIN video_map
                            /\ \A j \in 1 .. i - 1 :
                                  similarity_results[j].page_content = t =>
                                     Get(similarity_results[j].metadata, "video_id")
                                        \notin DOMAIN video_map
                hit == similarity_results[first]
                same == { i \in 1 .. Len(enriched_results) :
                             enriched_results[i].page_content = t }
            IN /\ Cardinality(same) = 1
               /\ \A i \in same :
                     enriched_results[i].metadata =
                        ("video" :> video_map[hit.metadata.video_id]) @@ hit.metadata

C11_Witness ==
    /\ pc = "done"
    /\ calls.fetch > 0
    /\ SharedTexts # {}
    /\ \E h \in Range(keyword_results) :
          /\ h.page_content \notin SharedTexts
          /\ \E e \in Range(enriched_results) : e.page_content = h.page_content


\* C12: deduplicating a candidate list by text keeps, for every text, exactly
\* its first document, in the original order and whatever the metadata of
\* the later documents, and deduplicating the outcome again changes nothing.
C12_DedupKeepsFirstOccurrences ==
    (call.op = "dedup" /\ returned.status = "returned") =>
        LET docs == call.docs
            firsts == { i \in 1 .. Len(docs) :
                          \A j \in 1 .. i - 1 :
                             docs[j].page_content # docs[i].page_content }
        IN /\ returned.value = Subsequence(docs, firsts, Len(docs))
           /\ Dedup(returned.value) = returned.value

C12_Witness ==
    /\ call.op = "dedup"
    /\ returned.status = "returned"
    /\ Len(call.docs) = MaxDocs
    /\ Len(returned.value) = 2
    /\ \E i, j, k \in 1 .. Len(call.docs) :
          /\ i < j /\ j < k
          /\ call.docs[i].page_content = call.docs[k].page_content
          /\ call.docs[i].page_content # call.docs[j].page_content
          /\ call.docs[i].metadata # call.docs[k].metadata


\* the non-null key/value pairs of a chunk's metadata, as a set
NonNullItems(chunk) ==
    { item \in Range(chunk.metadata) : item.value # None }

\* C13: two chunks with equal text and equal sets of non-null metadata
\* key/value pairs have the same id, in whatever order the keys were
\* inserted and whatever null-valued entries they carry.
C13_ChunkIdIgnoresKeyOrder ==
    (call.op = "get_chunk_id" /\ returned.status = "returned") =>
        LET a == call.chunks[1]
            b == call.chunks[2]
        IN (a.page_content = b.page_content /\ NonNullItems(a) = NonNullItems(b))
              => returned.value[1] = returned.value[2]


\* the rerank call raised and the search went on with the unscored fallback
RerankFellBack == pc = "done" /\ calls.rerank = "raised"

\* the candidates of the fallback: the first FALLBACK_LIMIT enriched
\* documents in their order, each with the fallback score
IsFallbackOfEnriched ==
    /\ Len(reranked_results) = Min(FALLBACK_LIMIT, Len(enriched_results))
    /\ \A i \in 1 .. Len(reranked_results) :
          /\ reranked_results[i].content = enriched_results[i].page_content
          /\ reranked_results[i].score = FALLBACK_SCORE
          /\ reranked_results[i].video_id = enriched_results[i].metadata.video_id

\* C14: when reranking fails on a non-empty candidate list, the search goes
\* on with the first min(10, n) enriched candidates in their order, each
\* scored 0.5, and the response has chunks and videos.
C14_FallbackPopulatesResponse ==
    RerankFellBack =>
        /\ IsFallbackOfEnriched
        /\ response.chunks # << >>
        /\ response.videos # << >>


\* the valid reranked results the selection counts, their video ids, and
\* how often and where first each id occurs among them
ValidReranked == ValidResults(reranked_results)
ValidVideoIds == { r.video_id : r \in Range(ValidReranked) }
Occurrences(v) ==
    Cardinality({ i \in 1 .. Len(ValidReranked) : ValidReranked[i].video_id = v })
FirstOccurrence(v) ==
    CHOOSE i \in 1 .. Len(ValidReranked) :
        /\ ValidReranked[i].video_id = v
        /\ \A j \in 1 .. i - 1 : ValidReranked[j].video_id # v
Preferred(a, b) ==
    \/ Occurrences(a) > Occurrences(b)
    \/ Occurrences(a) = Occurrences(b) /\ FirstOccurrence(a) < FirstOccurrence(b)

RetainedChunks == minimise_chunks(top_chunks)

\* min-max scaling is degenerate: one retained chunk, or all scores equal
DegenerateScores ==
    /\ RetainedChunks # << >>
    /\ \A i, j \in 1 .. Len(RetainedChunks) :
          RetainedChunks[i].score = RetainedChunks[j].score

\* C16: when the retained chunks' scores are degenerate for min-max scaling
\* (a single chunk, or all scores equal), every returned chunk has the
\* default score 50 and the search does not raise.
C16_DegenerateScoresGetDefault ==
    (pc \in {"done", "raised"} /\ calls.fetch > 0 /\ DegenerateScores) =>
        /\ pc = "done"
        /\ Len(response.chunks) = Len(RetainedChunks)
        /\ \A c \in Range(response.chunks) : c.score = DEFAULT_SCORE


\* the chunks of the response that belong to a video, and the sum of the
\* scores of the first n of them
MemberChunks(v) == SelectSeq(response.chunks, LAMBDA c : c.videoId = v)

RECURSIVE ScoreSum(_, _)
ScoreSum(chunks, n) ==
    IF n = 0 THEN 0 ELSE chunks[n].score + ScoreSum(chunks, n - 1)

\* avg_score is the arithmetic mean of the returned scores of the video's
\* member chunks
IsMeanOfMembers(video) ==
    LET members == MemberChunks(video.videoId)
    IN members # << >> =>
          video.avg_score.num * Len(members)
             = ScoreSum(members, Len(members)) * video.avg_score.den

\* C17 as stated: avg_score is the mean of the standardized scores of the
\* video's chunks in the response, and it is 0.0 exactly when the video has
\* no member chunk.
C17_AvgZeroExactlyWithoutMembers ==
    pc = "done" =>
        \A video \in Range(response.videos) :
            /\ IsMeanOfMembers(video)
            /\ video.avg_score.num = 0 <=> MemberChunks(video.videoId) = << >>

\* C17, amended: avg_score is the mean of the standardized scores of the
\* video's chunks in the response, and it is 0.0 when the video has no member
\* chunk; a video whose member chunks all have the standardized score 0 has
\* the average 0.0 as well.
C17_AvgIsMeanOfMemberScores ==
    pc = "done" =>
        \A video \in Range(response.videos) :
            /\ IsMeanOfMembers(video)
            /\ MemberChunks(video.videoId) = << >> => video.avg_score.num = 0
            /\ video.avg_score.num = 0 =>
                  \A c \in Range(MemberChunks(video.videoId)) : c.score = 0

C17_Witness ==
    /\ pc = "done"
    /\ \E a, b, c \in Range(response.videos) :
          /\ Len(MemberChunks(a.videoId)) > 1
          /\ \E i, j \in 1 .. Len(MemberChunks(a.videoId)) :
                MemberChunks(a.videoId)[i].score # MemberChunks(a.videoId)[j].score
          /\ MemberChunks(b.videoId) = << >>
          /\ MemberChunks(c.videoId) # << >>
          /\ c.avg_score.num = 0
    /\ \E c \in Range(response.chunks) :
          \E r \in Range(top_chunks) : r.text = c.text /\ r.score # c.score


\* the batch a document of the rerank call falls into: consecutive slices of
\* batch_size documents
BatchOf(i) == ((i - 1) \div call.batch_size) + 1

\* C18: a batch whose scoring raises yields one entry with score 0 for each
\* of its documents, every other batch keeps the model's scores, and the
\* call returns one entry per document instead of raising.
C18_FailedBatchScoresZero ==
    (call.op = "rerank" /\ returned # Pending) =>
        /\ returned.status = "returned"
        /\ Len(returned.value) = Len(call.docs)
        /\ \A i \in 1 .. Len(call.docs) :
              \E j \in 1 .. Len(returned.value) :
                 /\ returned.value[j].text = call.docs[i].page_content
                 /\ returned.value[j].video = call.docs[i].metadata.video
                 /\ returned.value[j].score =
                       IF BatchOf(i) \in returned.failed
                         THEN 0
                         ELSE returned.model[call.docs[i].page_content]

C18_Witness ==
    /\ call.op = "rerank"
    /\ returned # Pending
    /\ Len(call.docs) = MaxDocs
    /\ \E i, j \in 1 .. Len(call.docs) :
          /\ BatchOf(i) \in returned.failed
          /\ BatchOf(j) \notin returned.failed
          /\ returned.model[call.docs[j].page_content] # 0
          /\ returned.model[call.docs[i].page_content] # 0
    /\ \A r \in Range(returned.value) : r.score # 0 \/ \E i \in 1 .. Len(call.docs) :
          BatchOf(i) \in returned.failed /\ call.docs[i].page_content = r.text


\* the calls of get_cross_encoder that have come back
Finished == { w \in Workers : workers[w].pc = "done" }

\* the model constructions since the last clear_cache
ConstructedSinceClear ==
    IF clear_result = Pending THEN constructed
    ELSE constructed - clear_result.constructed_before

\* C19: however the threads calling get_cross_encoder interleave, the
\* cross-encoder is constructed at most once between cache clears and every
\* caller receives that one instance.
C19_OneSharedCrossEncoder ==
    /\ ConstructedSinceClear <= 1
    /\ \A w \in Finished :
          /\ workers[w].result.status = "returned"
          /\ workers[w].result.value # None
    /\ \A v, w \in Finished :
          v # w /\ workers[v].after_clear = workers[w].after_clear
             => workers[v].result = workers[w].result

\* C20: clear_cache returns without raising and leaves the manager without a
\* model instance, and a get_cross_encoder called after it returns a model
\* constructed after the clear.
C20_ClearCacheReleasesModel ==
    clear_result # Pending =>
        /\ clear_result.status = "returned"
        /\ _cross_encoder = None
        /\ lru_cache = None
        /\ \A w \in Finished :
              workers[w].after_clear =>
                 /\ workers[w].result.status = "returned"
                 /\ workers[w].result.value > clear_result.constructed_before


\* the similarity search has been started and its answer is awaited
DenseAwaited == pc = "dense"

\* the keyword search has been started
KeywordStarted == calls.keyword # "none"

\* C21: the two searches of one search run concurrently: while the answer of
\* the similarity search is still awaited, the keyword search has already
\* been started.
C21_SearchesRunConcurrently == DenseAwaited => KeywordStarted


\* the metadata keys the conversion to an output chunk reads
ChunkKeys == {"text", "start", "end", "video_id"}

\* C22: the documents of the keyword search and the documents of the
\* similarity search carry the same metadata keys, among them the keys text,
\* start, end and video_id that the conversion to an output chunk needs.
C22_SameMetadataKeys ==
    /\ \A d \in Range(similarity_results) : \A k \in Range(keyword_results) :
          (Get(d.metadata, "video_id") # None /\ Get(k.metadata, "video_id") # None)
             => DOMAIN d.metadata = DOMAIN k.metadata
    /\ \A d \in Range(similarity_results) \cup Range(keyword_results) :
          Get(d.metadata, "video_id") # None => ChunkKeys \subseteq DOMAIN d.metadata


\* how many documents of the rerank call, and how many entries of its answer,
\* have a text
DocsWithText(t) ==
    Cardinality({ i \in 1 .. Len(call.docs) : call.docs[i].page_content = t })
EntriesWithText(t) ==
    Cardinality({ j \in 1 .. Len(returned.value) : returned.value[j].text = t })

RECURSIVE Concatenation(_, _)
Concatenation(batches, n) ==
    IF n = 0 THEN << >> ELSE Concatenation(batches, n - 1) \o batches[n]

\* the effective batch size is within 1 .. MAX_BATCH_SIZE and the batches
\* are consecutive slices of at most that size that make up the candidates
SplitsIntoBatches ==
    LET size == returned.value.batch_size
        batches == returned.value.doc_chunks
    IN /\ 1 <= size
       /\ size <= MAX_BATCH_SIZE
       /\ \A b \in 1 .. Len(batches) : Len(batches[b]) \in 1 .. size
       /\ Concatenation(batches, Len(batches)) = call.docs

\* C24: for every batch_size handed to the constructor, zero, negative and
\* above the cap included, the effective batch size is between 1 and
\* MAX_BATCH_SIZE and chunk_docs splits the candidates into consecutive
\* batches of at most that size whose concatenation is the candidate list.
C24_BatchSizeWithinBounds ==
    (call.op = "chunk_docs" /\ returned # Pending) => SplitsIntoBatches


\* the non-null video ids the combined hits carry
CombinedVideoIds ==
    { d.metadata.video_id :
        d \in { h \in Range(combined_results) :
                  "video_id" \in DOMAIN h.metadata /\ h.metadata.video_id # None } }

\* C25: a search calls the video store at most once, with exactly the
\* distinct non-null video ids of the combined hits, and not at all when
\* there is no combined hit or none carries a video id.
C25_OneVideoLookupPerSearch ==
    /\ calls.fetch <= 1
    /\ calls.fetch = 1 =>
          /\ calls.fetch_ids = CombinedVideoIds
          /\ None \notin calls.fetch_ids
    /\ (pc \in {"done", "raised"} /\ calls.vstore = "store"
          /\ (combined_results = << >> \/ CombinedVideoIds = {}))
          => calls.fetch = 0
    /\ (pc \in {"done", "raised"} /\ CombinedVideoIds # {}) => calls.fetch = 1

C25_Witness ==
    /\ pc = "done"
    /\ calls.fetch = 1
    /\ Cardinality(calls.fetch_ids) > 1
    /\ Cardinality(calls.fetch_ids) < Len(combined_results) - 1
    /\ \E h \in Range(combined_results) : Get(h.metadata, "video_id") = None


\* the embedding rows ingested for a video: add_chunks stores the video id
\* under the metadata key video_id
EmbeddingsOf(v) ==
    { i \in 1 .. Len(embeddings) : Get(embeddings[i].metadata, "video_id") = v }

\* C26: after delete_video(v) has completed without error the embedding
\* store holds no entry ingested for v and the video row is gone.
C26_DeleteRemovesEmbeddings ==
    \A v \in deleted :
        /\ EmbeddingsOf(v) = {}
        /\ v \notin videos

\* the embedding rows that hold the same document (same fingerprint) as row i
SameDocumentRows(i) ==
    { j \in 1 .. Len(embeddings) :
         DocumentId(embeddings[j]) = DocumentId(embeddings[i]) }

\* C27: add_chunks writes only chunks whose fingerprint is not stored yet, so
\* no document is held by two embedding rows: adding the same chunks a
\* second time adds no row.
C27_AddChunksWritesOnlyNewFingerprints ==
    \A i \in 1 .. Len(embeddings) : SameDocumentRows(i) = {i}

\* the min-max rescaling of a search's own raw scores
OwnRescaling(scores) ==
    [i \in 1 .. Len(scores) |-> transform(fit(scores), scores[i])]

\* C28: a search that standardizes while another search does so gets the
\* min-max rescaling of its own raw scores, every score within [0, 100].
C28_StandardizationUsesOwnScores ==
    \A w \in DOMAIN workers :
        workers[w].pc = "done" =>
            /\ workers[w].scaled = OwnRescaling(workers[w].scores)
            /\ \A i \in 1 .. Len(workers[w].scaled) :
                   workers[w].scaled[i] \in 0 .. FEATURE_MAX

\* the reranked results of the selected top videos that the conversion to
\* the output chunk shape left out of the response
DroppedTopChunks ==
    { i \in 1 .. Len(top_chunks) :
         \A c \in Range(response.chunks) :
            ~ (c.text = top_chunks[i].text /\ c.videoId = top_chunks[i].video_id) }

\* C29: every reranked result of a selected top video is a chunk of the
\* response, so every returned video has a member chunk among the chunks.
C29_TopResultsBecomeChunks ==
    /\ DroppedTopChunks = {}
    /\ Len(response.chunks) = Len(top_chunks)
    /\ ResponseVideoIds \subseteq ResponseChunkIds

\* steps of the handle cache and of the search that reads it
SearchStarts == pc \in {"idle", "done", "raised"} /\ calls'.vstore # "none" /\ call' = call
CloseRuns == call'.op = "close" /\ db_instances' = "absent" /\ pc' = pc

\* C30: a failed creation of the handle stays recorded: a search that
\* starts while it is recorded ends at once with the empty response, runs
\* no query and leaves the record as it is; only close() removes the
\* record, and the search that starts after close() stores what its own
\* creation attempt gave.
C30_FailureRecordedUntilClose ==
    [][/\ db_instances = "None" =>
            \/ db_instances' = "None"
            \/ CloseRuns
       /\ (db_instances = "None" /\ SearchStarts) =>
            /\ pc' = "done"
            /\ response' = EmptyResponse
            /\ calls'.vstore = "None"
            /\ calls'.dense = "none" /\ calls'.keyword = "none"
       /\ (db_instances = "absent" /\ SearchStarts) =>
            /\ db_instances' \in {"store", "None"}
            /\ calls'.vstore = db_instances'
      ]_vars

\* a creation failed, close() cleared the record, and the next search
\* created the handle and answered with videos
C30_Witness ==
    /\ call.op = "close"
    /\ call.cleared = "None"
    /\ db_instances = "store"
    /\ pc = "done"
    /\ response.videos # << >>

====
